---- MODULE Spec2Model ----
(***************************************************************************)
(* Model of scripts/check_dev_tools.py: the probe engine (check_tool and   *)
(* its strategies), the aggregator (run_checks, generate_recommendations)  *)
(* and the exit code of main.                                              *)
(*                                                                         *)
(* Representation.  A Python str that the program inspects or builds       *)
(* (probe output, paths, names, ids, check types) is a Text: a sequence of *)
(* one-character strings.  A str that is only copied (urls, install        *)
(* commands, fix hints, message templates) is an atomic string.  An        *)
(* Optional value is None (<<>>) or Some(x) (<<x>>).                       *)
(***************************************************************************)
EXTENDS Integers, Sequences, FiniteSets, TLC

VARIABLES config, sys, exit_on_missing, pc, idx, results, report, exit_code, invoked

vars == <<config, sys, exit_on_missing, pc, idx, results, report, exit_code, invoked>>

None == <<>>

Some(x) == <<x>>

\* ------------------------------------------------------------------------
\* Text primitives (str methods and operators used by the program)
\* ------------------------------------------------------------------------

\* str.lower on one character
Lower(c) ==
    CASE c = "A" -> "a" [] c = "B" -> "b" [] c = "C" -> "c" [] c = "D" -> "d"
      [] c = "E" -> "e" [] c = "F" -> "f" [] c = "G" -> "g" [] c = "H" -> "h"
      [] c = "I" -> "i" [] c = "J" -> "j" [] c = "K" -> "k" [] c = "L" -> "l"
      [] c = "M" -> "m" [] c = "N" -> "n" [] c = "O" -> "o" [] c = "P" -> "p"
      [] c = "Q" -> "q" [] c = "R" -> "r" [] c = "S" -> "s" [] c = "T" -> "t"
      [] c = "U" -> "u" [] c = "V" -> "v" [] c = "W" -> "w" [] c = "X" -> "x"
      [] c = "Y" -> "y" [] c = "Z" -> "z" [] OTHER -> c

\* str.lower
LowerText(s) == [i \in 1..Len(s) |-> Lower(s[i])]

\* str.replace(" ", "_")
ReplaceSpaces(s) == [i \in 1..Len(s) |-> IF s[i] = " " THEN "_" ELSE s[i]]

IsSpace(c) == c \in {" ", "\n", "\t", "\r"}

IsDigit(c) == c \in {"0", "1", "2", "3", "4", "5", "6", "7", "8", "9"}

\* str.strip(): drop leading and trailing whitespace
Strip(s) ==
    LET keep == {i \in 1..Len(s) : ~IsSpace(s[i])}
    IN  IF keep = {} THEN <<>>
        ELSE LET lo == CHOOSE i \in keep : \A j \in keep : i <= j
                 hi == CHOOSE i \in keep : \A j \in keep : j <= i
             IN  SubSeq(s, lo, hi)

\* the Python test  pat in s  on strings
Contains(s, pat) ==
    \E i \in 1..(Len(s) - Len(pat) + 1) : SubSeq(s, i, i + Len(pat) - 1) = pat

\* ------------------------------------------------------------------------
\* String literals of the source, as Texts
\* ------------------------------------------------------------------------
S_command == <<"c", "o", "m", "m", "a", "n", "d">>

S_directory == <<"d", "i", "r", "e", "c", "t", "o", "r", "y">>

S_framework == <<"f", "r", "a", "m", "e", "w", "o", "r", "k">>

S_custom == <<"c", "u", "s", "t", "o", "m">>

S_xcode_special == <<"x", "c", "o", "d", "e", "_", "s", "p", "e", "c", "i", "a", "l">>

S_timed_out == <<"C", "o", "m", "m", "a", "n", "d", " ", "t", "i", "m", "e", "d", " ", "o", "u", "t">>

S_cmd_not_found == <<"C", "o", "m", "m", "a", "n", "d", " ", "n", "o", "t", " ", "f", "o", "u", "n", "d">>

S_Xcode_app == <<"X", "c", "o", "d", "e", ".", "a", "p", "p">>

S_CommandLineTools == <<"C", "o", "m", "m", "a", "n", "d", "L", "i", "n", "e", "T", "o", "o", "l", "s">>

S_requires_Xcode == <<"r", "e", "q", "u", "i", "r", "e", "s", " ", "X", "c", "o", "d", "e">>

S_version_sp == <<"v", "e", "r", "s", "i", "o", "n", " ">>

S_None == <<"N", "o", "n", "e">>

S_xcode == <<"x", "c", "o", "d", "e">>

S_Xcode == <<"X", "c", "o", "d", "e">>

S_xcode_clt == <<"x", "c", "o", "d", "e", "_", "c", "l", "t">>

S_Xcode_CLT == <<"X", "c", "o", "d", "e", " ", "C", "o", "m", "m", "a", "n", "d", " ", "L", "i", "n", "e", " ", "T", "o", "o", "l", "s">>

S_xcodebuild == <<"x", "c", "o", "d", "e", "b", "u", "i", "l", "d">>

S_app_bundle == <<"/", "A", "p", "p", "l", "i", "c", "a", "t", "i", "o", "n", "s", "/", "X", "c", "o", "d", "e", ".", "a", "p", "p">>

StoreUrl == "https://apps.apple.com/us/app/xcode/id497799835"

ReselectCommand == "sudo xcode-select -s /Applications/Xcode.app/Contents/Developer"

\* ------------------------------------------------------------------------
\* run_command: the outcome of a subprocess is read from the system state
\* ------------------------------------------------------------------------

\* run_command that ignores check_error: every completed run is a success
run_command_unchecked(s, command, check_error) ==
    LET o == s.proc[command]
    IN  CASE o.kind = "exit" ->
               [success |-> TRUE, stdout |-> o.out, stderr |-> o.err]
          [] o.kind = "timeout" ->
               [success |-> FALSE, stdout |-> <<>>, stderr |-> S_timed_out]
          [] o.kind = "notfound" ->
               [success |-> FALSE, stdout |-> <<>>, stderr |-> S_cmd_not_found]
          [] OTHER ->
               [success |-> FALSE, stdout |-> <<>>, stderr |-> o.err]

\* result.returncode == 0 if check_error else True; the three except clauses
run_command(s, command, check_error) ==
    LET o == s.proc[command]
    IN  CASE o.kind = "exit" ->
               [success |-> IF check_error THEN o.code = 0 ELSE TRUE,
                stdout |-> o.out, stderr |-> o.err]
          [] o.kind = "timeout" ->
               [success |-> FALSE, stdout |-> <<>>, stderr |-> S_timed_out]
          [] o.kind = "notfound" ->
               [success |-> FALSE, stdout |-> <<>>, stderr |-> S_cmd_not_found]
          [] OTHER ->
               [success |-> FALSE, stdout |-> <<>>, stderr |-> o.err]

\* ------------------------------------------------------------------------
\* extract_version and the regular expressions it searches with
\* ------------------------------------------------------------------------
RECURSIVE DigitRunEnd(_, _)
\* last index of the maximal run of digits starting at i (i-1 if none): \d+
DigitRunEnd(s, i) ==
    IF i > Len(s) \/ ~IsDigit(s[i]) THEN i - 1 ELSE DigitRunEnd(s, i + 1)

\* end of a match of \d+\.\d+ starting at i, 0 if there is none
MatchDotted2(s, i) ==
    LET e1 == DigitRunEnd(s, i)
    IN  IF e1 < i \/ e1 + 1 > Len(s) \/ s[e1 + 1] # "." THEN 0
        ELSE LET e2 == DigitRunEnd(s, e1 + 2)
             IN  IF e2 < e1 + 2 THEN 0 ELSE e2

\* end of a match of \d+\.\d+\.\d+ starting at i, 0 if there is none
MatchDotted3(s, i) ==
    LET e2 == MatchDotted2(s, i)
    IN  IF e2 = 0 \/ e2 + 1 > Len(s) \/ s[e2 + 1] # "." THEN 0
        ELSE LET e3 == DigitRunEnd(s, e2 + 2)
             IN  IF e3 < e2 + 2 THEN 0 ELSE e3

\* re.search(r'(\d+\.\d+\.\d+)', output, re.IGNORECASE): group 1 or None
SearchDotted3(s) ==
    LET hits == {i \in 1..Len(s) : MatchDotted3(s, i) # 0}
    IN  IF hits = {} THEN None
        ELSE LET i == CHOOSE k \in hits : \A j \in hits : k <= j
             IN  Some(SubSeq(s, i, MatchDotted3(s, i)))

\* re.search(r'version (\d+\.\d+)', output, re.IGNORECASE): group 1 or None
SearchLabeled(s) ==
    LET n == Len(S_version_sp)
        hits == {i \in 1..Len(s) :
                    /\ i + n - 1 <= Len(s)
                    /\ LowerText(SubSeq(s, i, i + n - 1)) = S_version_sp
                    /\ MatchDotted2(s, i + n) # 0}
    IN  IF hits = {} THEN None
        ELSE LET i == CHOOSE k \in hits : \A j \in hits : k <= j
             IN  Some(SubSeq(s, i + n, MatchDotted2(s, i + n)))

\* re.search(r'v(\d+\.\d+\.\d+)', output, re.IGNORECASE): group 1 or None
SearchPrefixed(s) ==
    LET hits == {i \in 1..Len(s) : Lower(s[i]) = "v" /\ MatchDotted3(s, i + 1) # 0}
    IN  IF hits = {} THEN None
        ELSE LET i == CHOOSE k \in hits : \A j \in hits : k <= j
             IN  Some(SubSeq(s, i + 1, MatchDotted3(s, i + 1)))

\* re.search(regex, output) for a configured version_regex.  A configured
\* pattern is a literal followed by \d+, the digits a capturing group or
\* not: [lit |-> Text, group |-> BOOLEAN].  The search has no flags, so it
\* is case-sensitive.  The value is match.group(1) if match.groups() else
\* match.group(0), or None without a match.
SearchCustom(regex, s) ==
    LET n == Len(regex.lit)
        hits == {i \in 1..Len(s) :
                    /\ i + n - 1 <= Len(s)
                    /\ SubSeq(s, i, i + n - 1) = regex.lit
                    /\ DigitRunEnd(s, i + n) >= i + n}
    IN  IF hits = {} THEN None
        ELSE LET i == CHOOSE k \in hits : \A j \in hits : k <= j
                 e == DigitRunEnd(s, i + n)
             IN  Some(IF regex.group THEN SubSeq(s, i + n, e) ELSE SubSeq(s, i, e))

\* extract_version that tries the labeled pattern before the dotted one
extract_version_labeled_first(output, regex) ==
    IF output = <<>> THEN None
    ELSE LET custom == IF regex # None THEN SearchCustom(regex[1], output) ELSE None
         IN  IF custom # None THEN custom
             ELSE IF SearchLabeled(output) # None THEN SearchLabeled(output)
             ELSE IF SearchDotted3(output) # None THEN SearchDotted3(output)
             ELSE SearchPrefixed(output)

extract_version(output, regex) ==
    IF output = <<>> THEN None
    ELSE LET custom == IF regex # None THEN SearchCustom(regex[1], output) ELSE None
         IN  IF custom # None THEN custom
             ELSE IF SearchDotted3(output) # None THEN SearchDotted3(output)
             ELSE IF SearchLabeled(output) # None THEN SearchLabeled(output)
             ELSE SearchPrefixed(output)

\* ------------------------------------------------------------------------
\* check_command
\* ------------------------------------------------------------------------
FallbackFlags == <<"-v", "version", "-version", "--version">>

\* the for/else loop over the alternative flags: the output of the first
\* flag whose run succeeds or prints anything, None when the loop runs out
RECURSIVE FallbackOutput(_, _, _)
FallbackOutput(s, command, k) ==
    IF k > Len(FallbackFlags) THEN None
    ELSE LET r == run_command(s, <<command, FallbackFlags[k]>>, FALSE)
         IN  IF r.success \/ r.stdout # <<>> \/ r.stderr # <<>>
             THEN Some(IF r.stdout # <<>> THEN r.stdout ELSE r.stderr)
             ELSE FallbackOutput(s, command, k + 1)

\* check_command that takes a failed version probe for a missing command
check_command_strict(s, command, version_flag, version_regex) ==
    LET cmd_path == s.which[command]
        r == run_command(s, <<command, version_flag>>, FALSE)
    IN  IF cmd_path = None \/ ~r.success
        THEN [exists |-> FALSE, version |-> None, path |-> None]
        ELSE [exists |-> TRUE,
              version |-> extract_version(IF r.stdout # <<>> THEN r.stdout ELSE r.stderr,
                                          version_regex),
              path |-> cmd_path]

check_command(s, command, version_flag, version_regex) ==
    LET cmd_path == s.which[command]
    IN  IF cmd_path = None THEN [exists |-> FALSE, version |-> None, path |-> None]
        ELSE LET r == run_command(s, <<command, version_flag>>, FALSE)
                 output ==
                     IF ~r.success
                     THEN IF r.stderr # <<>> THEN Some(r.stderr)
                          ELSE FallbackOutput(s, command, 1)
                     ELSE Some(IF r.stdout # <<>> THEN r.stdout ELSE r.stderr)
             IN  IF output = None
                 THEN [exists |-> TRUE, version |-> None, path |-> cmd_path]
                 ELSE [exists |-> TRUE,
                       version |-> extract_version(output[1], version_regex),
                       path |-> cmd_path]

\* ------------------------------------------------------------------------
\* Records of the data model
\* ------------------------------------------------------------------------

\* ToolResult(...), with the dataclass defaults and __post_init__
ToolResult(id, name, category, status, installed, working, version, path, check_type, issues, installation) ==
    [id |-> id, name |-> name, category |-> category, status |-> status,
     installed |-> installed, working |-> working, version |-> version,
     path |-> path, check_type |-> check_type, issues |-> issues,
     installation |-> installation]

\* an issue dict: message is a template and the Text formatted into it
Issue(level, text, arg, fix) ==
    [level |-> level, message |-> [text |-> text, arg |-> arg], fix |-> fix]

\* an installation dict; an absent key is None, as dict.get reports it
Installation(method, command, url, notes) ==
    [method |-> method, command |-> command, url |-> url, notes |-> notes]

\* truth value of an Optional atomic string: None and "" are falsy
Truthy(opt) == opt # None /\ opt[1] # ""

\* ------------------------------------------------------------------------
\* The three custom routines
\* ------------------------------------------------------------------------

\* check_xcode: Some(ToolResult), or None where the function runs off its
\* end without a return statement
check_xcode(s) ==
    LET sel == run_command(s, <<"xcode-select", "-p">>, FALSE)
        xcode_select_path == IF sel.success THEN Some(Strip(sel.stdout)) ELSE None
        selected(pat) == /\ xcode_select_path # None
                         /\ xcode_select_path[1] # <<>>
                         /\ Contains(xcode_select_path[1], pat)
    IN  IF s.bundle
        THEN IF selected(S_Xcode_app)
             THEN LET xb == run_command(s, <<"xcodebuild", "-version">>, TRUE)
                  IN  IF xb.success
                      THEN LET version == extract_version(xb.stdout, None)
                               fl == run_command(s, <<"xcodebuild", "-checkFirstLaunchStatus">>, TRUE)
                               issues ==
                                   IF ~fl.success
                                   THEN <<Issue("warning",
                                                "Xcode may need to complete first launch setup",
                                                <<>>, Some("sudo xcodebuild -runFirstLaunch"))>>
                                   ELSE <<>>
                           IN  Some(ToolResult(S_xcode, S_Xcode, "required",
                                               IF issues = <<>> THEN "found" ELSE "warning",
                                               TRUE, TRUE, version, xcode_select_path,
                                               S_xcode_special, issues, None))
                      ELSE None
             ELSE Some(ToolResult(S_xcode, S_Xcode, "required", "error", TRUE, FALSE,
                                  None, Some(S_app_bundle), S_xcode_special,
                                  <<Issue("error", "Xcode.app exists but not selected (current: {})",
                                          IF xcode_select_path = None THEN S_None
                                          ELSE xcode_select_path[1],
                                          Some(ReselectCommand))>>,
                                  Some(Installation(Some("Fix selection"),
                                                    Some(ReselectCommand), None, None))))
        ELSE IF selected(S_CommandLineTools)
        THEN Some(ToolResult(S_xcode, S_Xcode, "required", "not_found", FALSE, FALSE,
                             None, None, S_xcode_special,
                             <<Issue("error", "Only Command Line Tools installed, full Xcode required",
                                     <<>>, Some("Download Xcode from Mac App Store"))>>,
                             Some(Installation(Some("Mac App Store"), None, Some(StoreUrl),
                                               Some("Full Xcode installation required for building macOS apps")))))
        ELSE Some(ToolResult(S_xcode, S_Xcode, "required", "not_found", FALSE, FALSE,
                             None, None, S_xcode_special,
                             <<Issue("error", "Xcode not installed", <<>>,
                                     Some("Download from Mac App Store or https://developer.apple.com"))>>,
                             Some(Installation(Some("Mac App Store"), None, Some(StoreUrl), None))))

check_xcode_clt(s) ==
    LET sel == run_command(s, <<"xcode-select", "-p">>, FALSE)
    IN  IF sel.success /\ Strip(sel.stdout) # <<>>
        THEN ToolResult(S_xcode_clt, S_Xcode_CLT, "required", "found", TRUE, TRUE,
                        None, Some(Strip(sel.stdout)), S_directory, <<>>, None)
        ELSE ToolResult(S_xcode_clt, S_Xcode_CLT, "required", "not_found", FALSE, FALSE,
                        None, None, S_directory,
                        <<Issue("error", "Command Line Tools not installed", <<>>,
                                Some("xcode-select --install"))>>,
                        Some(Installation(Some("xcode-select"),
                                          Some("xcode-select --install"), None, None)))

\* check_xcodebuild with the installed and working arguments of the failing
\* branch exchanged
check_xcodebuild_swapped(s) ==
    LET xb == run_command(s, <<"xcodebuild", "-version">>, TRUE)
    IN  IF xb.success
        THEN ToolResult(S_xcodebuild, S_xcodebuild, "required", "found", TRUE, TRUE,
                        extract_version(xb.stdout, None), None, S_command, <<>>, None)
        ELSE LET marker == Contains(xb.stderr, S_requires_Xcode)
             IN  ToolResult(S_xcodebuild, S_xcodebuild, "required", "error",
                            FALSE, s.which["xcodebuild"] # None, None, None, S_command,
                            IF marker
                            THEN <<Issue("error",
                                         "xcodebuild requires Xcode but only Command Line Tools installed",
                                         <<>>, Some("Install full Xcode from Mac App Store"))>>
                            ELSE <<Issue("error", "xcodebuild not working: {}", xb.stderr,
                                         Some("Check Xcode installation"))>>,
                            IF marker
                            THEN Some(Installation(Some("Install Xcode"), None, Some(StoreUrl), None))
                            ELSE None)

check_xcodebuild(s) ==
    LET xb == run_command(s, <<"xcodebuild", "-version">>, TRUE)
    IN  IF xb.success
        THEN ToolResult(S_xcodebuild, S_xcodebuild, "required", "found", TRUE, TRUE,
                        extract_version(xb.stdout, None), None, S_command, <<>>, None)
        ELSE LET marker == Contains(xb.stderr, S_requires_Xcode)
             IN  ToolResult(S_xcodebuild, S_xcodebuild, "required", "error",
                            s.which["xcodebuild"] # None, FALSE, None, None, S_command,
                            IF marker
                            THEN <<Issue("error",
                                         "xcodebuild requires Xcode but only Command Line Tools installed",
                                         <<>>, Some("Install full Xcode from Mac App Store"))>>
                            ELSE <<Issue("error", "xcodebuild not working: {}", xb.stderr,
                                         Some("Check Xcode installation"))>>,
                            IF marker
                            THEN Some(Installation(Some("Install Xcode"), None, Some(StoreUrl), None))
                            ELSE None)

\* ------------------------------------------------------------------------
\* check_framework and check_tool
\* ------------------------------------------------------------------------

\* FirstExisting that keeps the last candidate that exists
FirstExisting_last(s, paths) ==
    LET hits == {i \in 1..Len(paths) : paths[i] \in s.exists}
    IN  IF hits = {} THEN None
        ELSE Some(paths[CHOOSE k \in hits : \A j \in hits : j <= k])

\* the first candidate path that exists, in list order; None if none does
FirstExisting(s, paths) ==
    LET hits == {i \in 1..Len(paths) : paths[i] \in s.exists}
    IN  IF hits = {} THEN None
        ELSE Some(paths[CHOOSE k \in hits : \A j \in hits : k <= j])

check_framework(s, framework_name, paths) ==
    LET id == ReplaceSpaces(LowerText(framework_name))
        hit == FirstExisting(s, paths)
    IN  IF hit # None
        THEN ToolResult(id, framework_name, "project-specific", "found", TRUE, TRUE,
                        None, hit, S_framework, <<>>, None)
        ELSE ToolResult(id, framework_name, "project-specific", "not_found", FALSE, FALSE,
                        None, None, S_framework,
                        <<Issue("warning", "{} not found", framework_name,
                                Some("May require Xcode or macOS SDK installation"))>>,
                        None)

\* the final return of check_tool: the unknown-check-type result
UnknownCheckType(tool_config) ==
    ToolResult(tool_config.id, tool_config.name, tool_config.category, "error",
               FALSE, FALSE, None, None, tool_config.check.type,
               <<Issue("error", "Unknown check type: {}", tool_config.check.type, None)>>,
               None)

\* the command branch of check_tool without the issue of a missing command
CommandResult_no_issue(s, tool_config) ==
    LET chk == tool_config.check
        version_flag == IF chk.version_flag = None THEN "--version" ELSE chk.version_flag[1]
        c == check_command(s, chk.command, version_flag, chk.version_regex)
        installation ==
            IF ~c.exists /\ tool_config.installation # None
            THEN tool_config.installation[1].primary
            ELSE None
    IN  ToolResult(tool_config.id, tool_config.name, tool_config.category,
                   IF c.exists THEN "found" ELSE "not_found",
                   c.exists, c.exists, c.version, c.path, S_command,
                   <<>>, installation)

\* the command branch of check_tool
CommandResult(s, tool_config) ==
    LET chk == tool_config.check
        version_flag == IF chk.version_flag = None THEN "--version" ELSE chk.version_flag[1]
        c == check_command(s, chk.command, version_flag, chk.version_regex)
        installation ==
            IF ~c.exists /\ tool_config.installation # None
            THEN tool_config.installation[1].primary
            ELSE None
    IN  ToolResult(tool_config.id, tool_config.name, tool_config.category,
                   IF c.exists THEN "found" ELSE "not_found",
                   c.exists, c.exists, c.version, c.path, S_command,
                   IF c.exists THEN <<>>
                   ELSE <<Issue(IF tool_config.category = "required" THEN "error" ELSE "warning",
                                "{} not found", tool_config.name,
                                IF installation # None THEN installation[1].command ELSE None)>>,
                   installation)

\* the directory branch of check_tool
DirectoryResult(s, tool_config) ==
    LET hit == FirstExisting(s, tool_config.check.paths)
    IN  IF hit # None
        THEN ToolResult(tool_config.id, tool_config.name, tool_config.category,
                        "found", TRUE, TRUE, None, hit, S_directory, <<>>, None)
        ELSE ToolResult(tool_config.id, tool_config.name, tool_config.category,
                        "not_found", FALSE, FALSE, None, None, S_directory, <<>>, None)

\* check_tool whose custom branch returns nothing for a routine it does not know
check_tool_no_fallthrough(s, tool_config) ==
    LET check_type == tool_config.check.type
    IN  IF check_type = S_custom
        THEN LET function_name == tool_config.check.function
             IN  IF function_name = "check_xcode" THEN check_xcode(s)
                 ELSE IF function_name = "check_xcode_clt" THEN Some(check_xcode_clt(s))
                 ELSE IF function_name = "check_xcodebuild" THEN Some(check_xcodebuild(s))
                 ELSE None
        ELSE IF check_type = S_command THEN Some(CommandResult(s, tool_config))
        ELSE IF check_type = S_directory THEN Some(DirectoryResult(s, tool_config))
        ELSE IF check_type = S_framework
        THEN Some(check_framework(s, tool_config.name, tool_config.check.paths))
        ELSE Some(UnknownCheckType(tool_config))

\* check_tool: Some(ToolResult), or None when the routine it calls returns None
check_tool(s, tool_config) ==
    LET check_type == tool_config.check.type
    IN  IF check_type = S_custom
        THEN LET function_name == tool_config.check.function
             IN  IF function_name = "check_xcode" THEN check_xcode(s)
                 ELSE IF function_name = "check_xcode_clt" THEN Some(check_xcode_clt(s))
                 ELSE IF function_name = "check_xcodebuild" THEN Some(check_xcodebuild(s))
                 ELSE Some(UnknownCheckType(tool_config))
        ELSE IF check_type = S_command THEN Some(CommandResult(s, tool_config))
        ELSE IF check_type = S_directory THEN Some(DirectoryResult(s, tool_config))
        ELSE IF check_type = S_framework
        THEN Some(check_framework(s, tool_config.name, tool_config.check.paths))
        ELSE Some(UnknownCheckType(tool_config))

\* ------------------------------------------------------------------------
\* The subprocesses a check runs: the calls of run_command, in order
\* ------------------------------------------------------------------------

\* the calls made by the for/else loop of check_command from flag k on
RECURSIVE FallbackInvoked(_, _, _)
FallbackInvoked(s, command, k) ==
    IF k > Len(FallbackFlags) THEN <<>>
    ELSE LET r == run_command(s, <<command, FallbackFlags[k]>>, FALSE)
         IN  <<FallbackFlags[k]>> \o
             (IF r.success \/ r.stdout # <<>> \/ r.stderr # <<>>
              THEN <<>>
              ELSE FallbackInvoked(s, command, k + 1))

\* the flags check_command runs the command with
CommandInvoked(s, command, version_flag) ==
    IF s.which[command] = None THEN <<>>
    ELSE LET r == run_command(s, <<command, version_flag>>, FALSE)
         IN  <<version_flag>> \o
             (IF ~r.success /\ r.stderr = <<>>
              THEN FallbackInvoked(s, command, 1)
              ELSE <<>>)

\* the arguments check_xcode runs xcode-select and xcodebuild with
XcodeInvoked(s) ==
    LET sel == run_command(s, <<"xcode-select", "-p">>, FALSE)
        path == IF sel.success THEN Strip(sel.stdout) ELSE <<>>
    IN  <<"-p">> \o
        (IF s.bundle /\ Contains(path, S_Xcode_app)
         THEN <<"-version">> \o
              (IF run_command(s, <<"xcodebuild", "-version">>, TRUE).success
               THEN <<"-checkFirstLaunchStatus">> ELSE <<>>)
         ELSE <<>>)

\* the second element of every command line that check_tool has run
ToolInvoked(s, tool_config) ==
    LET chk == tool_config.check
    IN  IF chk.type = S_custom
        THEN IF chk.function = "check_xcode" THEN XcodeInvoked(s)
             ELSE IF chk.function = "check_xcode_clt" THEN <<"-p">>
             ELSE IF chk.function = "check_xcodebuild" THEN <<"-version">>
             ELSE <<>>
        ELSE IF chk.type = S_command
        THEN CommandInvoked(s, chk.command,
                            IF chk.version_flag = None THEN "--version"
                            ELSE chk.version_flag[1])
        ELSE <<>>

\* ------------------------------------------------------------------------
\* The aggregator
\* ------------------------------------------------------------------------

\* sum(1 for r in rs if r["working"])
RECURSIVE CountWorking(_)
CountWorking(rs) ==
    IF rs = <<>> THEN 0
    ELSE (IF Head(rs).working THEN 1 ELSE 0) + CountWorking(Tail(rs))

\* action of a critical recommendation:
\* installation.get("command") or installation.get("url")
CriticalAction(tool) ==
    IF tool.installation # None
    THEN IF Truthy(tool.installation[1].command) THEN tool.installation[1].command
         ELSE tool.installation[1].url
    ELSE None

\* action of a low recommendation: installation.get("command")
LowAction(tool) ==
    IF tool.installation # None THEN tool.installation[1].command ELSE None

Recommendation(priority, text, name, action) ==
    [priority |-> priority, message |-> [text |-> text, arg |-> name], action |-> action]

\* the first loop of generate_recommendations
RECURSIVE CriticalPass(_)
CriticalPass(rs) ==
    IF rs = <<>> THEN <<>>
    ELSE (IF Head(rs).category = "required" /\ ~Head(rs).working
          THEN <<Recommendation("critical", "Install {} - required for building",
                                Head(rs).name, CriticalAction(Head(rs)))>>
          ELSE <<>>) \o CriticalPass(Tail(rs))

\* the second loop of generate_recommendations
RECURSIVE LowPass(_)
LowPass(rs) ==
    IF rs = <<>> THEN <<>>
    ELSE (IF Head(rs).category = "optional" /\ ~Head(rs).working
          THEN <<Recommendation("low", "Consider installing {}",
                                Head(rs).name, LowAction(Head(rs)))>>
          ELSE <<>>) \o LowPass(Tail(rs))

\* generate_recommendations with its two loops exchanged
generate_recommendations_low_first(rs) == LowPass(rs) \o CriticalPass(rs)

generate_recommendations(rs) == CriticalPass(rs) \o LowPass(rs)

\* the filters of the two list comprehensions of run_checks
IsRequired(r) == r.category = "required"

IsOptional(r) == r.category = "optional"

\* Summary whose all_required_present ranges over every result
Summary_all(rs) ==
    LET required_tools == SelectSeq(rs, IsRequired)
        optional_tools == SelectSeq(rs, IsOptional)
    IN  [all_required_present |-> \A i \in 1..Len(rs) : rs[i].working,
         required_count |-> Len(required_tools),
         required_present |-> CountWorking(required_tools),
         optional_count |-> Len(optional_tools),
         optional_present |-> CountWorking(optional_tools)]

\* the summary dict of run_checks
Summary(rs) ==
    LET required_tools == SelectSeq(rs, IsRequired)
        optional_tools == SelectSeq(rs, IsOptional)
    IN  [all_required_present |->
             \A i \in 1..Len(required_tools) : required_tools[i].working,
         required_count |-> Len(required_tools),
         required_present |-> CountWorking(required_tools),
         optional_count |-> Len(optional_tools),
         optional_present |-> CountWorking(optional_tools)]

\* ------------------------------------------------------------------------
\* Inputs: subprocess outcomes, system states, descriptors
\* ------------------------------------------------------------------------
MaxTools == 2

MaxPaths == 2

\* what subprocess.run does: it completes with an exit code and output, times
\* out, finds no executable, or raises something else (err is str(e))
Exited(code, out, err) == [kind |-> "exit", code |-> code, out |-> out, err |-> err]

TimedOut == [kind |-> "timeout", code |-> 0, out |-> <<>>, err |-> <<>>]

Missing == [kind |-> "notfound", code |-> 0, out |-> <<>>, err |-> <<>>]

Raised(msg) == [kind |-> "exc", code |-> 0, out |-> <<>>, err |-> msg]

T_git_version == <<"g", "i", "t", " ", "2", ".", "4", ".", "1">>

T_usage == <<"u", "s", "a", "g", "e", " ", "7">>

T_xcode_version == <<"X", "c", "o", "d", "e", " ", "1", "5", ".", "0", ".", "1">>

T_requires == <<"t", "o", "o", "l", " ", "r", "e", "q", "u", "i", "r", "e", "s", " ", "X", "c", "o", "d", "e">>

T_broken == <<"b", "r", "o", "k", "e", "n">>

T_sel_xcode == <<"/", "A", "p", "p", "l", "i", "c", "a", "t", "i", "o", "n", "s", "/", "X", "c", "o", "d", "e", ".", "a", "p", "p", "/", "C", "o", "n", "t", "e", "n", "t", "s", "/", "D", "e", "v", "e", "l", "o", "p", "e", "r", "\n">>

T_sel_clt == <<"/", "L", "i", "b", "r", "a", "r", "y", "/", "D", "e", "v", "e", "l", "o", "p", "e", "r", "/", "C", "o", "m", "m", "a", "n", "d", "L", "i", "n", "e", "T", "o", "o", "l", "s", "\n">>

T_sel_other == <<"/", "o", "p", "t", "/", "d", "e", "v", "\n">>

T_bin_git == <<"/", "b", "i", "n", "/", "g", "i", "t">>

T_bin_xcodebuild == <<"/", "b", "i", "n", "/", "x", "b">>

T_a == <<"/", "a">>

T_b == <<"/", "b">>

T_git == <<"g", "i", "t">>

T_Git == <<"G", "i", "t">>

T_App_Kit == <<"A", "p", "p", " ", "K", "i", "t">>

T_app_kit == <<"a", "p", "p", "_", "k", "i", "t">>

T_plugin == <<"p", "l", "u", "g", "i", "n">>

Paths == {T_a, T_b}

Flags == {"--version", "-v", "version", "-version", "-V"}

SelectorCmd == <<"xcode-select", "-p">>

VersionCmd == <<"xcodebuild", "-version">>

FirstLaunchCmd == <<"xcodebuild", "-checkFirstLaunchStatus">>

Invocations == {SelectorCmd, VersionCmd, FirstLaunchCmd} \cup {<<"git", f>> : f \in Flags}

PrimaryOutcomes ==
    {Exited(0, T_git_version, <<>>), Exited(1, <<>>, T_git_version),
     Exited(0, <<>>, <<>>), TimedOut, Raised(<<>>)}

FallbackOutcomes ==
    {Exited(0, T_git_version, <<>>), Exited(1, <<>>, T_usage), Raised(<<>>)}

GitProbes ==
    {[f \in Flags |-> IF f = "--version" THEN p
                      ELSE IF f = "-V" THEN q
                      ELSE IF f = "-v" THEN a
                      ELSE IF f = "version" THEN b ELSE c] :
        p \in PrimaryOutcomes, q \in PrimaryOutcomes,
        a \in FallbackOutcomes, b \in FallbackOutcomes, c \in FallbackOutcomes}

DefaultProbes == [f \in Flags |-> Exited(0, T_git_version, <<>>)]

SelectorOutcomes ==
    {Exited(0, T_sel_xcode, <<>>), Exited(0, T_sel_clt, <<>>), Exited(0, T_sel_other, <<>>),
     Exited(0, <<"\n">>, <<>>), Exited(2, <<>>, T_broken), Missing}

VersionOutcomes ==
    {Exited(0, T_xcode_version, <<>>), Exited(1, <<>>, T_requires),
     Exited(1, <<>>, T_broken), TimedOut}

FirstLaunchOutcomes == {Exited(0, <<>>, <<>>), Exited(1, <<>>, T_broken)}

MkSys(which_git, which_xb, exists, bundle, sel, xb, fl, git) ==
    [which |-> [c \in {"git", "xcodebuild"} |-> IF c = "git" THEN which_git ELSE which_xb],
     exists |-> exists,
     bundle |-> bundle,
     proc |-> [inv \in Invocations |->
                  IF inv = SelectorCmd THEN sel
                  ELSE IF inv = VersionCmd THEN xb
                  ELSE IF inv = FirstLaunchCmd THEN fl
                  ELSE git[inv[2]]]]

\* a machine with nothing installed
BareSys == MkSys(None, None, {}, FALSE, Missing, Missing, Missing, DefaultProbes)

CommandSys ==
    {BareSys} \cup
    {MkSys(Some(T_bin_git), None, {}, FALSE, Missing, Missing, Missing, g) : g \in GitProbes}

PathSys ==
    {MkSys(None, None, e, FALSE, Missing, Missing, Missing, DefaultProbes) : e \in SUBSET Paths}

XcodeSys ==
    {MkSys(None, w, {}, b, sel, xb, fl, DefaultProbes) :
        w \in {None, Some(T_bin_xcodebuild)}, b \in BOOLEAN, sel \in SelectorOutcomes,
        xb \in VersionOutcomes, fl \in FirstLaunchOutcomes}

Categories == {"required", "optional", "project-specific"}

Check(type, function, command, version_flag, version_regex, paths) ==
    [type |-> type, function |-> function, command |-> command,
     version_flag |-> version_flag, version_regex |-> version_regex, paths |-> paths]

Descriptor(id, name, category, check, installation) ==
    [id |-> id, name |-> name, category |-> category, check |-> check,
     installation |-> installation]

\* the "installation" section of a descriptor: absent, without a "primary"
\* entry, or with one that has a command, a url, or both
Primaries ==
    {Installation(Some("brew"), Some("brew install git"), None, None),
     Installation(Some("download"), None, Some("https://git-scm.com"), None),
     Installation(Some("brew"), Some("brew install git"), Some("https://git-scm.com"), None)}

InstallationSections ==
    {None, Some([primary |-> None])} \cup {Some([primary |-> Some(p)]) : p \in Primaries}

GitPattern(group) == [lit |-> <<"g", "i", "t", " ">>, group |-> group]

CommandDescriptors ==
    {Descriptor(T_git, T_Git, c, Check(S_command, "", "git", vf, vr, <<>>), inst) :
        c \in Categories, vf \in {None, Some("-V")},
        vr \in {None, Some(GitPattern(TRUE))}, inst \in InstallationSections}

PathLists == UNION {[1..n -> Paths] : n \in 0..MaxPaths}

DirectoryDescriptors ==
    {Descriptor(T_app_kit, T_App_Kit, c, Check(S_directory, "", "", None, None, ps), None) :
        c \in Categories, ps \in PathLists}

FrameworkDescriptors ==
    {Descriptor(T_app_kit, T_App_Kit, c, Check(S_framework, "", "", None, None, ps), None) :
        c \in Categories, ps \in PathLists}

KnownFunctions == {"check_xcode", "check_xcode_clt", "check_xcodebuild"}

CustomDescriptors ==
    {Descriptor(T_git, T_Git, c, Check(S_custom, f, "", None, None, <<>>), None) :
        c \in Categories, f \in KnownFunctions}

\* a strategy tag outside the four of check_tool, or a custom routine name
\* outside the three it knows
UnknownDescriptors ==
    {Descriptor(T_git, T_Git, c, Check(t, f, "", None, None, <<>>), None) :
        c \in Categories,
        t \in {S_xcode_special, T_plugin}, f \in {""}} \cup
    {Descriptor(T_git, T_Git, c, Check(S_custom, "check_swift", "", None, None, <<>>), None) :
        c \in Categories}

Descriptors ==
    CommandDescriptors \cup DirectoryDescriptors \cup FrameworkDescriptors
        \cup CustomDescriptors \cup UnknownDescriptors

\* the system states that differ in what the descriptor's strategy probes
SysFor(d) ==
    IF d.check.type = S_command THEN CommandSys
    ELSE IF d.check.type \in {S_directory, S_framework} THEN PathSys
    ELSE IF d.check.type = S_custom /\ d.check.function \in KnownFunctions THEN XcodeSys
    ELSE {BareSys}

\* The configurations of whole runs: a smaller choice of descriptors, so that
\* lists of them stay enumerable
RunDescriptors ==
    {Descriptor(T_git, T_Git, c, Check(S_command, "", "git", None, None, <<>>), inst) :
        c \in Categories, inst \in {None} \cup {Some([primary |-> Some(p)]) : p \in Primaries}}
    \cup {Descriptor(T_app_kit, T_App_Kit, c, Check(S_directory, "", "", None, None, <<T_a>>), None) :
        c \in {"required", "optional"}}
    \cup {Descriptor(T_app_kit, T_App_Kit, "required",
                     Check(S_framework, "", "", None, None, <<T_a>>), None),
          Descriptor(T_git, T_Git, "required",
                     Check(S_custom, "check_xcode", "", None, None, <<>>), None),
          Descriptor(T_git, T_Git, "required",
                     Check(S_xcode_special, "", "", None, None, <<>>), None),
          Descriptor(T_git, T_Git, "optional",
                     Check(S_custom, "check_swift", "", None, None, <<>>), None)}

RunConfigs == UNION {[1..n -> RunDescriptors] : n \in 0..MaxTools}

\* Xcode absent; Xcode selected and working; Xcode selected, xcodebuild failing
RunSys ==
    {MkSys(w, None, e, x[1], x[2], x[3], Exited(0, <<>>, <<>>), DefaultProbes) :
        w \in {None, Some(T_bin_git)}, e \in SUBSET {T_a},
        x \in {<<FALSE, Missing, Missing>>,
               <<TRUE, Exited(0, T_sel_xcode, <<>>), Exited(0, T_xcode_version, <<>>)>>,
               <<TRUE, Exited(0, T_sel_xcode, <<>>), Exited(1, <<>>, T_broken)>>}}

\* Probe outputs for version extraction: up to MaxPieces pieces in a row, and
\* the two outputs that section 8 of the specification names
MaxPieces == 3

Pieces ==
    {<<"1", ".", "2", ".", "3">>, <<"4", ".", "5">>, <<"6">>, <<".">>, <<"v">>, <<" ">>,
     <<"V", "e", "r", "s", "i", "o", "n", " ">>,
     <<"g", "i", "t", " ">>}

RECURSIVE Flatten(_)
Flatten(ps) == IF ps = <<>> THEN <<>> ELSE Head(ps) \o Flatten(Tail(ps))

T_tool_version == <<"t", "o", "o", "l", " ", "v", "e", "r", "s", "i", "o", "n", " ", "1", "2", ".", "3">>

T_v_release == <<"v", "1", ".", "2", ".", "3", " ", "r", "e", "l", "e", "a", "s", "e">>

VersionTexts ==
    {Flatten(ps) : ps \in UNION {[1..n -> Pieces] : n \in 0..MaxPieces}}
        \cup {T_tool_version, T_v_release}

VersionPatterns == {None, Some(GitPattern(TRUE)), Some(GitPattern(FALSE))}

\* ------------------------------------------------------------------------
\* The program: main runs run_checks and exits
\* ------------------------------------------------------------------------

\* the state after DevToolsChecker.__init__ and parse_args
Start ==
    /\ pc = "checking"
    /\ idx = 1
    /\ results = <<>>
    /\ report = None
    /\ exit_code = None
    /\ invoked = <<>>
    /\ exit_on_missing \in BOOLEAN

\* a run over a whole configuration
Init ==
    /\ config \in RunConfigs
    /\ sys \in RunSys
    /\ Start

\* a run over a configuration of one descriptor, in every system state
InitTool ==
    /\ \E d \in Descriptors : config = <<d>> /\ sys \in SysFor(d)
    /\ Start

\* a run over one command descriptor whose version probe prints a given text
InitVersion ==
    /\ \E vr \in VersionPatterns :
          config = <<Descriptor(T_git, T_Git, "required",
                                Check(S_command, "", "git", None, vr, <<>>), None)>>
    /\ \E txt \in VersionTexts :
          sys = MkSys(Some(T_bin_git), None, {}, FALSE, Missing, Missing, Missing,
                      [f \in Flags |-> Exited(0, txt, <<>>)])
    /\ Start

\* one iteration of the loop of run_checks.  asdict(None) raises TypeError,
\* which nothing catches: the interpreter prints the traceback and exits 1.
\* invoked[i] lists the subprocesses that checking config[i] ran, in order.
RunChecksLoop ==
    /\ pc = "checking"
    /\ idx <= Len(config)
    /\ LET result == check_tool(sys, config[idx])
       IN  IF result = None
           THEN /\ pc' = "crashed"
                /\ exit_code' = Some(1)
                /\ UNCHANGED <<idx, results>>
           ELSE /\ results' = Append(results, result[1])
                /\ idx' = idx + 1
                /\ UNCHANGED <<pc, exit_code>>
    /\ invoked' = Append(invoked, ToolInvoked(sys, config[idx]))
    /\ UNCHANGED <<config, sys, exit_on_missing, report>>

\* the rest of run_checks: summary, tools and recommendations
RunChecksReturn ==
    /\ pc = "checking"
    /\ idx > Len(config)
    /\ report' = Some([summary |-> Summary(results),
                       tools |-> results,
                       recommendations |-> generate_recommendations(results)])
    /\ pc' = "reported"
    /\ UNCHANGED <<config, sys, exit_on_missing, idx, results, exit_code, invoked>>

\* the exit code of main
MainExit ==
    /\ pc = "reported"
    /\ exit_code' = Some(IF exit_on_missing /\ ~report[1].summary.all_required_present
                         THEN 1 ELSE 0)
    /\ pc' = "exited"
    /\ UNCHANGED <<config, sys, exit_on_missing, idx, results, report, invoked>>

Next == RunChecksLoop \/ RunChecksReturn \/ MainExit

Spec == Init /\ [][Next]_vars

SpecTool == InitTool /\ [][Next]_vars

SpecVersion == InitVersion /\ [][Next]_vars

\* ------------------------------------------------------------------------
\* Properties
\* ------------------------------------------------------------------------

\* results[i] is the result of config[i]: the loop appends one per iteration
Checked == 1..Len(results)

\* C1: check_tool returns a ToolResult for every descriptor in every system
\* state, nothing is raised, and the 'tools' sequence of run_checks has
\* exactly one entry per descriptor, in descriptor order.
C1_OneResultPerDescriptor ==
    /\ pc # "crashed"
    /\ Len(results) = idx - 1
    /\ report # None =>
          /\ Len(report[1].tools) = Len(config)
          /\ \A i \in 1..Len(config) : Some(report[1].tools[i]) = check_tool(sys, config[i])

\* C2: in every ToolResult, of whatever strategy, installed = false implies
\* working = false.
C2_NotInstalledNotWorking ==
    \A i \in Checked : ~results[i].installed => ~results[i].working

\* an xcodebuild that fails although it is on the search path, and one that
\* fails and is not: installed and working are independent there
C2_Witness ==
    \E i \in Checked :
        /\ config[i].check.function = "check_xcodebuild"
        /\ sys.which["xcodebuild"] = None
        /\ sys.proc[VersionCmd].kind = "exit" /\ sys.proc[VersionCmd].code # 0
        /\ ~results[i].installed /\ ~results[i].working

\* C3: the category of every ToolResult is the category of the descriptor it
\* was produced from, whatever the strategy.
C3_CategoryOfDescriptor ==
    \A i \in Checked : results[i].category = config[i].category

C5_DirectoryFirstMatch ==
    \A i \in Checked :
        config[i].check.type = S_directory =>
            LET r == results[i]
                ps == config[i].check.paths
            IN  IF \E k \in 1..Len(ps) : ps[k] \in sys.exists
                THEN /\ r.status = "found" /\ r.installed /\ r.working
                     /\ r.version = None
                     /\ \E k \in 1..Len(ps) :
                           /\ r.path = Some(ps[k])
                           /\ ps[k] \in sys.exists
                           /\ \A j \in 1..(k - 1) : ps[j] \notin sys.exists
                ELSE /\ r.status = "not_found" /\ ~r.installed /\ ~r.working
                     /\ r.path = None

\* the first candidate is missing and the second exists
C5_Witness ==
    \E i \in Checked :
        /\ config[i].check.type = S_directory
        /\ config[i].check.paths = <<T_a, T_b>>
        /\ sys.exists = {T_b}
        /\ results[i].status = "found" /\ results[i].path = Some(T_b)

\* C6: the summary of run_checks counts the required results and the working
\* ones among them, likewise the optional results; all_required_present is the
\* conjunction of working over the required results (true without any);
\* project-specific results are counted nowhere.
C6_SummaryCounts ==
    report # None =>
        LET ts == report[1].tools
            sm == report[1].summary
            Of(cat) == {i \in 1..Len(ts) : ts[i].category = cat}
            WorkingOf(cat) == {i \in Of(cat) : ts[i].working}
        IN  /\ sm.required_count = Cardinality(Of("required"))
            /\ sm.required_present = Cardinality(WorkingOf("required"))
            /\ sm.optional_count = Cardinality(Of("optional"))
            /\ sm.optional_present = Cardinality(WorkingOf("optional"))
            /\ sm.all_required_present = (Of("required") = WorkingOf("required"))

\* every required tool works while a tool of another category does not
C6_Witness ==
    /\ report # None
    /\ report[1].summary.all_required_present
    /\ report[1].summary.required_count = 1
    /\ report[1].summary.required_present = 1
    /\ \E i \in 1..Len(report[1].tools) :
          report[1].tools[i].category # "required" /\ ~report[1].tools[i].working

\* the action the claim gives to both kinds of recommendation: the
\* installation command if present, else the installation url if present
C7_Action(tool) ==
    IF tool.installation = None THEN None
    ELSE IF tool.installation[1].command # None THEN tool.installation[1].command
    ELSE tool.installation[1].url

\* C7: one critical recommendation for each required result that is not
\* working, one low recommendation for each optional result that is not
\* working, none for any other result; the action of either is the result's
\* installation command, else its installation url, else absent.
C7_Recommendations ==
    report # None =>
        LET ts == report[1].tools
            recs == report[1].recommendations
            Failing(cat) == {i \in 1..Len(ts) : ts[i].category = cat /\ ~ts[i].working}
            With(prio) == {k \in 1..Len(recs) : recs[k].priority = prio}
        IN  /\ Cardinality(With("critical")) = Cardinality(Failing("required"))
            /\ Cardinality(With("low")) = Cardinality(Failing("optional"))
            /\ Len(recs) = Cardinality(With("critical")) + Cardinality(With("low"))
            /\ \A i \in Failing("required") : \E k \in With("critical") :
                  recs[k].message.arg = ts[i].name /\ recs[k].action = C7_Action(ts[i])
            /\ \A i \in Failing("optional") : \E k \in With("low") :
                  recs[k].message.arg = ts[i].name /\ recs[k].action = C7_Action(ts[i])

\* C8: main exits with 1 exactly when --exit-on-missing is set and some
\* required result is not working, and with 0 otherwise.
C8_ExitCode ==
    exit_code # None =>
        (exit_code[1] = 1 <=>
            /\ exit_on_missing
            /\ \E i \in Checked : results[i].category = "required" /\ ~results[i].working)

KnownTypes == {S_command, S_directory, S_framework, S_custom}

C9_Unknown(d) ==
    \/ d.check.type \notin KnownTypes
    \/ d.check.type = S_custom /\ d.check.function \notin KnownFunctions

\* C9: a descriptor with an unknown strategy tag, or a custom one with an
\* unknown routine name, gets an error result that is neither installed nor
\* working, carries the descriptor's id, name and category and an error-level
\* "unknown check type" issue; the loop goes on to the next descriptor.
C9_UnknownTypeIsErrorResult ==
    [][(pc = "checking" /\ idx <= Len(config) /\ C9_Unknown(config[idx])) =>
          /\ pc' = "checking"
          /\ idx' = idx + 1
          /\ Len(results') = Len(results) + 1
          /\ \A k \in 1..Len(results) : results'[k] = results[k]
          /\ LET r == results'[idx]
                 d == config[idx]
             IN  /\ r.status = "error" /\ ~r.installed /\ ~r.working
                 /\ r.id = d.id /\ r.name = d.name /\ r.category = d.category
                 /\ \E k \in 1..Len(r.issues) :
                       /\ r.issues[k].level = "error"
                       /\ r.issues[k].message.text = "Unknown check type: {}"
                       /\ r.issues[k].message.arg = d.check.type]_vars

\* an unknown routine name was met first and the next descriptor was checked
C9_Witness ==
    /\ Len(results) = 2
    /\ config[1].check.type = S_custom
    /\ config[1].check.function = "check_swift"
    /\ results[1].status = "error"
    /\ results[2].status = "found"

\* C10: check_xcode gives (a) not_found, not installed, not working and the
\* store url when the bundle is absent and the selector does not point at the
\* command-line tools; (b) not_found, not installed, not working when the
\* bundle is absent and the selector points at them; (c) error, installed, not
\* working with the reselect command as fix when the bundle is present and the
\* selector output is absent or does not name it; (d) installed and working
\* when the bundle is present and selected and xcodebuild -version succeeds,
\* with a warning-level issue exactly when the first-launch probe fails and
\* never an error-level issue.
C10_XcodeClassification ==
    \A i \in Checked :
        (config[i].check.type = S_custom /\ config[i].check.function = "check_xcode") =>
            LET r == results[i]
                sel == sys.proc[SelectorCmd]
                names(pat) == sel.kind = "exit" /\ Contains(Strip(sel.out), pat)
                probe_ok(cmd) == sys.proc[cmd].kind = "exit" /\ sys.proc[cmd].code = 0
                level(l) == \E k \in 1..Len(r.issues) : r.issues[k].level = l
            IN  /\ (~sys.bundle /\ ~names(S_CommandLineTools)) =>
                      /\ r.status = "not_found" /\ ~r.installed /\ ~r.working
                      /\ r.installation # None /\ r.installation[1].url = Some(StoreUrl)
                /\ (~sys.bundle /\ names(S_CommandLineTools)) =>
                      r.status = "not_found" /\ ~r.installed /\ ~r.working
                /\ (sys.bundle /\ ~names(S_Xcode_app)) =>
                      /\ r.status = "error" /\ r.installed /\ ~r.working
                      /\ \E k \in 1..Len(r.issues) : r.issues[k].fix = Some(ReselectCommand)
                /\ (sys.bundle /\ names(S_Xcode_app) /\ probe_ok(VersionCmd)) =>
                      /\ r.installed /\ r.working
                      /\ level("warning") <=> ~probe_ok(FirstLaunchCmd)
                      /\ ~level("error")

\* Xcode is present, selected and builds, and its first launch is incomplete
C10_Witness ==
    \E i \in Checked :
        /\ config[i].check.function = "check_xcode"
        /\ sys.bundle
        /\ sys.proc[SelectorCmd] = Exited(0, T_sel_xcode, <<>>)
        /\ sys.proc[FirstLaunchCmd].code = 1
        /\ results[i].status = "warning" /\ results[i].working

\* C11: for a command that resolves, a primary version probe that fails (a
\* non-zero exit, a timeout, a launch failure) is followed by the flags -v,
\* version, -version, --version in that order up to the first one that prints
\* anything; when none prints, the version is absent and the tool is still
\* installed and working.  After a primary probe that succeeds no other flag
\* is run.
C11_FallbackSequence ==
    \A i \in Checked :
        (config[i].check.type = S_command /\ sys.which[config[i].check.command] # None) =>
            LET chk == config[i].check
                flag == IF chk.version_flag = None THEN "--version" ELSE chk.version_flag[1]
                primary == sys.proc[<<chk.command, flag>>]
                failed == \/ primary.kind \in {"timeout", "notfound"}
                          \/ primary.kind = "exit" /\ primary.code # 0
                prints(f) == LET o == sys.proc[<<chk.command, f>>]
                             IN  o.kind = "exit" /\ (o.out # <<>> \/ o.err # <<>>)
                stops == {k \in 1..Len(FallbackFlags) : prints(FallbackFlags[k])}
                last == IF stops = {} THEN Len(FallbackFlags)
                        ELSE CHOOSE k \in stops : \A j \in stops : k <= j
            IN  /\ failed =>
                      /\ invoked[i] = <<flag>> \o SubSeq(FallbackFlags, 1, last)
                      /\ stops = {} =>
                            /\ results[i].version = None
                            /\ results[i].installed /\ results[i].working
                /\ (primary.kind = "exit" /\ primary.code = 0) => invoked[i] = <<flag>>

\* C12: in the recommendations every critical one precedes every low one, and
\* the recommendations of one priority are in the order of their tool results
\* in the input: the n-th critical one is for the n-th required result that
\* is not working, the n-th low one for the n-th such optional result.
C12_RecommendationOrder ==
    report # None =>
        LET ts == report[1].tools
            recs == report[1].recommendations
            Failing(cat) == {i \in 1..Len(ts) : ts[i].category = cat /\ ~ts[i].working}
            With(prio) == {k \in 1..Len(recs) : recs[k].priority = prio}
            Rank(set, x) == Cardinality({y \in set : y <= x})
            InOrder(prio, cat) ==
                \A k \in With(prio) : \A i \in Failing(cat) :
                    Rank(With(prio), k) = Rank(Failing(cat), i) =>
                        recs[k].message.arg = ts[i].name
        IN  /\ \A k \in With("critical") : \A l \in With("low") : k < l
            /\ InOrder("critical", "required")
            /\ InOrder("low", "optional")
            /\ \A k \in With("critical") : \A i \in Failing("required") :
                  Rank(With("critical"), k) = Rank(Failing("required"), i) =>
                      recs[k].action = C7_Action(ts[i])

\* an optional tool that is not working comes before a required one of
\* another name in the input, and the critical recommendation comes first
C12_Witness ==
    /\ report # None
    /\ Len(report[1].tools) = 2
    /\ report[1].tools[1].category = "optional" /\ ~report[1].tools[1].working
    /\ report[1].tools[2].category = "required" /\ ~report[1].tools[2].working
    /\ report[1].tools[1].name # report[1].tools[2].name
    /\ Len(report[1].recommendations) = 2
    /\ report[1].recommendations[1].priority = "critical"
    /\ report[1].recommendations[1].message.arg = report[1].tools[2].name

\* What the regular expressions of extract_version match, stated on the text:
\* s[a..b] is a run of digits, and one that no digit follows
C13_Digits(s, a, b) == a <= b /\ \A k \in a..b : IsDigit(s[k])

C13_Run(s, a, b) == C13_Digits(s, a, b) /\ (b = Len(s) \/ ~IsDigit(s[b + 1]))

\* s[a..e] is digits "." digits, resp. digits "." digits "." digits
C13_TwoPart(s, a, e) ==
    \E p \in (a + 1)..(e - 1) :
        s[p] = "." /\ C13_Digits(s, a, p - 1) /\ C13_Run(s, p + 1, e)

C13_ThreePart(s, a, e) ==
    \E p \in (a + 1)..(e - 3) :
        /\ s[p] = "."
        /\ C13_Digits(s, a, p - 1)
        /\ \E q \in (p + 2)..(e - 1) :
              s[q] = "." /\ C13_Digits(s, p + 1, q - 1) /\ C13_Run(s, q + 1, e)

\* s[a..e] is "version " in any case followed by a two-part number
C13_Labeled(s, a, e) ==
    /\ a + Len(S_version_sp) <= e
    /\ \A k \in 1..Len(S_version_sp) : Lower(s[a + k - 1]) = S_version_sp[k]
    /\ C13_TwoPart(s, a + Len(S_version_sp), e)

\* s[a..e] is "v" in any case followed by a three-part number
C13_Prefixed(s, a, e) == Lower(s[a]) = "v" /\ C13_ThreePart(s, a + 1, e)

\* s[a..e] is the literal of the custom pattern followed by digits
C13_Custom(s, lit, a, e) ==
    /\ a + Len(lit) <= e
    /\ \A k \in 1..Len(lit) : s[a + k - 1] = lit[k]
    /\ C13_Run(s, a + Len(lit), e)

\* where the leftmost match of a pattern starts and ends, <<0, 0>> without one
C13_Leftmost(s, M(_, _)) ==
    LET starts == {a \in 1..Len(s) : \E e \in a..Len(s) : M(a, e)}
    IN  IF starts = {} THEN <<0, 0>>
        ELSE LET a == CHOOSE x \in starts : \A y \in starts : x <= y
             IN  <<a, CHOOSE e \in a..Len(s) : M(a, e)>>

\* the version the claim gives for an output and an optional custom pattern
C13_Expected(s, rx) ==
    LET three(a, e) == C13_ThreePart(s, a, e)
        labeled(a, e) == C13_Labeled(s, a, e)
        prefixed(a, e) == C13_Prefixed(s, a, e)
        custom(a, e) == rx # None /\ C13_Custom(s, rx[1].lit, a, e)
        c == C13_Leftmost(s, custom)
        d == C13_Leftmost(s, three)
        l == C13_Leftmost(s, labeled)
        v == C13_Leftmost(s, prefixed)
    IN  IF s = <<>> THEN None
        ELSE IF c[1] # 0
        THEN Some(IF rx[1].group THEN SubSeq(s, c[1] + Len(rx[1].lit), c[2])
                  ELSE SubSeq(s, c[1], c[2]))
        ELSE IF d[1] # 0 THEN Some(SubSeq(s, d[1], d[2]))
        ELSE IF l[1] # 0 THEN Some(SubSeq(s, l[1] + Len(S_version_sp), l[2]))
        ELSE IF v[1] # 0 THEN Some(SubSeq(s, v[1] + 1, v[2]))
        ELSE None

\* C13: extract_version gives no version for empty output; otherwise the
\* custom pattern's first group, or its whole match when it has no group, if
\* the pattern is configured and matches; otherwise the first that matches
\* anywhere of the three-part dotted number, the number labeled "version " and
\* the three-part number prefixed "v"; otherwise no version.  "tool version
\* 12.3" gives "12.3" and "v1.2.3 release" gives "1.2.3".
C13_ExtractVersionPriority ==
    \A i \in Checked :
        LET chk == config[i].check
            probe == sys.proc[<<"git", "--version">>]
        IN  (chk.type = S_command /\ chk.version_flag = None
                /\ sys.which["git"] # None /\ probe.kind = "exit" /\ probe.err = <<>>) =>
                /\ results[i].version = C13_Expected(probe.out, chk.version_regex)
                /\ (probe.out = T_tool_version /\ chk.version_regex = None) =>
                      results[i].version = Some(<<"1", "2", ".", "3">>)
                /\ (probe.out = T_v_release /\ chk.version_regex = None) =>
                      results[i].version = Some(<<"1", ".", "2", ".", "3">>)

\* an output in which both the dotted and the labeled pattern match, without
\* a custom pattern: the three-part number is the version
C13_Witness ==
    /\ Len(results) = 1
    /\ config[1].check.version_regex = None
    /\ sys.proc[<<"git", "--version">>].out = <<"V", "e", "r", "s", "i", "o", "n", " ", "1", ".", "2", ".", "3">>
    /\ results[1].version = Some(<<"1", ".", "2", ".", "3">>)

\* C14: in every ToolResult working holds exactly when the status is found or
\* warning; found or warning implies installed; not_found implies not
\* installed; error implies not working; and a result that is not working and
\* comes from the command strategy or a custom routine carries an issue.
C14_StatusConsistency ==
    \A i \in Checked :
        LET r == results[i]
        IN  /\ r.working <=> r.status \in {"found", "warning"}
            /\ r.status \in {"found", "warning"} => r.installed
            /\ r.status = "not_found" => ~r.installed
            /\ r.status = "error" => ~r.working
            /\ (~r.working /\ config[i].check.type \in {S_command, S_custom}) =>
                  r.issues # <<>>

\* a command that is not on the search path: not_found, neither installed nor
\* working, with its issue
C14_Witness ==
    \E i \in Checked :
        /\ config[i].check.type = S_command
        /\ sys.which["git"] = None
        /\ results[i].status = "not_found"
        /\ ~results[i].working /\ ~results[i].installed
        /\ Len(results[i].issues) = 1

====
